---- MODULE Spec2Model ----
(***************************************************************************)
(* Model of internal/exporter/exporter.go: the Awair exporter, a            *)
(* prometheus collector that fetches /air-data/latest and                   *)
(* /settings/config/data from the device in two goroutines, joins them      *)
(* with a WaitGroup and sends the gauges on the metrics channel.            *)
(*                                                                          *)
(* float64 readings are modelled by integer-valued samples.  A Go pointer   *)
(* is either Nil or the record it points to.                                *)
(***************************************************************************)
EXTENDS Integers, Sequences, FiniteSets, TLC

\* ------------------------------------------------------------------ bounds

\* Collect invocations started over one run of the process.
MaxCycles == 2

\* Identifiers of the Collect invocations that may be in progress at once
\* (the registry may gather concurrently).
Scrapes == {"s1", "s2"}

Hostname == "awair.local"

\* The nil pointer.
Nil == [nil |-> TRUE]
NoErr == "no_error"

\* ------------------------------------------------------ descriptors (16-152)

\* prometheus.BuildFQName: the non-empty parts joined by "_"; "" if name is "".
BuildFQName(namespace, subsystem, name) ==
    IF name = "" THEN ""
    ELSE IF namespace # "" /\ subsystem # ""
            THEN namespace \o "_" \o subsystem \o "_" \o name
    ELSE IF namespace # "" THEN namespace \o "_" \o name
    ELSE IF subsystem # "" THEN subsystem \o "_" \o name
    ELSE name

\* prometheus.NewDesc(fqName, help, variableLabels, nil).  The help texts
\* below are shortened; they play no part in names, labels or values.
NewDesc(fqName, help, variableLabels) ==
    [fqName |-> fqName, help |-> help, variableLabels |-> variableLabels]

score == NewDesc(BuildFQName("awair", "", "score"), "Awair Score (0-100)", <<"device_uuid">>)

dew_point == NewDesc(BuildFQName("awair", "", "dew_point"), "dew point", <<"device_uuid">>)

temp == NewDesc(BuildFQName("awair", "", "temp"), "Dry bulb temperature", <<"device_uuid">>)

humidity == NewDesc(BuildFQName("awair", "", "humidity"), "Relative Humidity", <<"device_uuid">>)

abs_humidity == NewDesc(BuildFQName("awair", "", "absolute_humidity"), "Absolute Humidity", <<"device_uuid">>)

co2 == NewDesc(BuildFQName("awair", "", "co2"), "Carbon Dioxide", <<"device_uuid">>)

co2_estimated == NewDesc(BuildFQName("awair", "", "co2_est"), "Estimated Carbon Dioxide", <<"device_uuid">>)

co2_estimate_baseline == NewDesc(BuildFQName("awair", "", "co2_est_baseline"), "eCO2 baseline", <<"device_uuid">>)

voc == NewDesc(BuildFQName("awair", "", "voc"), "Total Volatile Organic Compounds", <<"device_uuid">>)

voc_baseline == NewDesc(BuildFQName("awair", "", "voc_baseline"), "TVOC baseline", <<"device_uuid">>)

voc_h2_raw == NewDesc(BuildFQName("awair", "", "voc_h2_raw"), "Hydrogen gas signal", <<"device_uuid">>)

voc_ethanol_raw == NewDesc(BuildFQName("awair", "", "voc_ethanol_raw"), "Ethanol gas signal", <<"device_uuid">>)

pm25 == NewDesc(BuildFQName("awair", "", "pm25"), "Particulate matter 2.5", <<"device_uuid">>)

pm10 == NewDesc(BuildFQName("awair", "", "pm10"), "Estimated particulate matter 10", <<"device_uuid">>)

info == NewDesc(BuildFQName("awair", "", "device_info"), "Info about the awair device",
                <<"device_uuid", "firmware_version", "voc_feature_set">>)

\* ------------------------------------------------------- records (154-188)

\* The zero value AwairValues{}.
AwairValues ==
    [Score |-> 0, DewPoint |-> 0, Temp |-> 0, Humidity |-> 0, AbsHumidity |-> 0,
     CO2 |-> 0, CO2Est |-> 0, CO2EstBaseline |-> 0, Voc |-> 0, VocBaseline |-> 0,
     VocH2Raw |-> 0, VocEthanolRaw |-> 0, PM25 |-> 0, PM10Est |-> 0]

\* The json tag of every AwairValues field.
AwairValuesTags ==
    [Score |-> "score", DewPoint |-> "dew_point", Temp |-> "temp", Humidity |-> "humid",
     AbsHumidity |-> "abs_humid", CO2 |-> "co2", CO2Est |-> "co2_est",
     CO2EstBaseline |-> "co2_est_baseline", Voc |-> "voc", VocBaseline |-> "voc_baseline",
     VocH2Raw |-> "voc_h2_raw", VocEthanolRaw |-> "voc_ethanol_raw", PM25 |-> "pm25",
     PM10Est |-> "pm10_est"]

\* The zero value LEDSettings{}.
LEDSettings == [Mode |-> "", Brightness |-> 0]

\* The zero value ConfigResponse{}.
ConfigResponse ==
    [DeviceUUID |-> "", WifiMAC |-> "", SSID |-> "", IP |-> "", Netmask |-> "",
     Gateway |-> "", FirmwareVersion |-> "", Timezone |-> "", Display |-> "",
     LED |-> LEDSettings, VocFeatureSet |-> 0]

\* The json tag of every ConfigResponse field.
ConfigResponseTags ==
    [DeviceUUID |-> "device_uuid", WifiMAC |-> "wifi_mac", SSID |-> "ssid", IP |-> "ip",
     Netmask |-> "netmask", Gateway |-> "gateway", FirmwareVersion |-> "fw_version",
     Timezone |-> "timezone", Display |-> "display", LED |-> "led",
     VocFeatureSet |-> "voc_feature_set"]

\* json.Unmarshal(body, &zero): a field whose tag is a key of the JSON object
\* takes the key's value, every other field keeps its zero value, unknown
\* keys are ignored.
Unmarshal(object, zero, tags) ==
    [f \in DOMAIN zero |-> IF tags[f] \in DOMAIN object THEN object[tags[f]] ELSE zero[f]]

\* ------------------------------------------------- what the device answers

\* An HTTP exchange with the device ends in one of: http.Get fails
\* ("get_error"), reading the body fails ("read_error"), or a body arrives
\* which is a JSON object of the expected shape or not ("bad_json").
GetError == [kind |-> "get_error"]

ReadError == [kind |-> "read_error"]

BadJSON == [kind |-> "bad_json"]

Body(object) == [kind |-> "object", object |-> object]

MetricsBodies ==
    { [score |-> 85, dew_point |-> 12, temp |-> 21, humid |-> 40, abs_humid |-> 7,
       co2 |-> 612, co2_est |-> 600, co2_est_baseline |-> 4200, voc |-> 250,
       voc_baseline |-> 18000, voc_h2_raw |-> 12500, voc_ethanol_raw |-> 18800,
       pm25 |-> 3, pm10_est |-> 5],
      [score |-> 90, temp |-> 19, co2 |-> 450, pm25 |-> 1, timestamp |-> 7] }

ConfigBodies ==
    { [device_uuid |-> "awair-123", fw_version |-> "1.2.3", voc_feature_set |-> 3],
      [device_uuid |-> "awair-456", wifi_mac |-> "70:88:6B:00:00:01", fw_version |-> "2.0.0",
       led |-> [Mode |-> "auto", Brightness |-> 20], voc_feature_set |-> 34] }

MetricsResponses == {GetError, ReadError, BadJSON} \cup {Body(b) : b \in MetricsBodies}

ConfigResponses == {GetError, ReadError, BadJSON} \cup {Body(b) : b \in ConfigBodies}

\* ------------------------------------------------------ the client (227-273)

\* GetMetrics: (nil, err) on any of the three failures, (&values, nil) else.
GetMetrics(resp) ==
    IF resp.kind = "get_error" THEN [ptr |-> Nil, err |-> "get_error"]
    ELSE IF resp.kind = "read_error" THEN [ptr |-> Nil, err |-> "read_error"]
    ELSE IF resp.kind = "bad_json" THEN [ptr |-> Nil, err |-> "unmarshal_error"]
    ELSE [ptr |-> Unmarshal(resp.object, AwairValues, AwairValuesTags), err |-> NoErr]

\* GetConfig: (nil, err) on any of the three failures, (&config, nil) else.
GetConfig(resp) ==
    IF resp.kind = "get_error" THEN [ptr |-> Nil, err |-> "get_error"]
    ELSE IF resp.kind = "read_error" THEN [ptr |-> Nil, err |-> "read_error"]
    ELSE IF resp.kind = "bad_json" THEN [ptr |-> Nil, err |-> "unmarshal_error"]
    ELSE [ptr |-> Unmarshal(resp.object, ConfigResponse, ConfigResponseTags), err |-> NoErr]

\* --------------------------------------------------- the metrics (307-354)

Digit(d) == <<"0", "1", "2", "3", "4", "5", "6", "7", "8", "9">>[d + 1]

RECURSIVE FormatNat(_)
FormatNat(n) == IF n < 10 THEN Digit(n) ELSE FormatNat(n \div 10) \o Digit(n % 10)

\* A faulty variant of Itoa: only the last digit is kept.
ItoaLastDigit(n) == Digit((IF n < 0 THEN -n ELSE n) % 10)

\* strconv.Itoa: the decimal digits of n, with a leading "-" if negative.
Itoa(n) == IF n < 0 THEN "-" \o FormatNat(-n) ELSE FormatNat(n)

\* prometheus.MustNewConstMetric(desc, GaugeValue, value, labelValues...):
\* panics unless there is one label value per variable label of desc.
MustNewConstMetric(desc, value, labelValues) ==
    IF Len(labelValues) # Len(desc.variableLabels)
    THEN [panic |-> TRUE]
    ELSE [panic |-> FALSE, desc |-> desc, valueType |-> "gauge", value |-> value,
          labelValues |-> labelValues]

\* A faulty variant of NumericGauges: the last gauge is left out.
NumericGaugesShort ==
    << [desc |-> score, field |-> "Score"],
       [desc |-> dew_point, field |-> "DewPoint"],
       [desc |-> temp, field |-> "Temp"],
       [desc |-> humidity, field |-> "Humidity"],
       [desc |-> abs_humidity, field |-> "AbsHumidity"],
       [desc |-> co2, field |-> "CO2"],
       [desc |-> co2_estimated, field |-> "CO2Est"],
       [desc |-> co2_estimate_baseline, field |-> "CO2EstBaseline"],
       [desc |-> voc, field |-> "Voc"],
       [desc |-> voc_baseline, field |-> "VocBaseline"],
       [desc |-> voc_h2_raw, field |-> "VocH2Raw"],
       [desc |-> voc_ethanol_raw, field |-> "VocEthanolRaw"],
       [desc |-> pm25, field |-> "PM25"] >>

\* The numeric gauges Collect sends, in the order it sends them: the
\* descriptor and the AwairValues field of each (lines 307-348).
NumericGauges ==
    << [desc |-> score, field |-> "Score"],
       [desc |-> dew_point, field |-> "DewPoint"],
       [desc |-> temp, field |-> "Temp"],
       [desc |-> humidity, field |-> "Humidity"],
       [desc |-> abs_humidity, field |-> "AbsHumidity"],
       [desc |-> co2, field |-> "CO2"],
       [desc |-> co2_estimated, field |-> "CO2Est"],
       [desc |-> co2_estimate_baseline, field |-> "CO2EstBaseline"],
       [desc |-> voc, field |-> "Voc"],
       [desc |-> voc_baseline, field |-> "VocBaseline"],
       [desc |-> voc_h2_raw, field |-> "VocH2Raw"],
       [desc |-> voc_ethanol_raw, field |-> "VocEthanolRaw"],
       [desc |-> pm25, field |-> "PM25"],
       [desc |-> pm10, field |-> "PM10Est"] >>

\* The number of sends in Collect: the numeric gauges, then info.
NumSends == Len(NumericGauges) + 1

\* The k-th metric Collect builds from the pointers values and config.  The
\* arguments are evaluated first, so a nil values or config pointer panics
\* (nil pointer dereference) before anything is built.
Metric(k, valuesPtr, configPtr) ==
    IF valuesPtr = Nil \/ configPtr = Nil THEN [panic |-> TRUE]
    ELSE IF k <= Len(NumericGauges)
         THEN MustNewConstMetric(NumericGauges[k].desc, valuesPtr[NumericGauges[k].field],
                                 <<configPtr.DeviceUUID>>)
         ELSE MustNewConstMetric(info, 1,
                                 <<configPtr.DeviceUUID, configPtr.FirmwareVersion,
                                   Itoa(configPtr.VocFeatureSet)>>)

\* ------------------------------------------------------------------- state

VARIABLES
    newCalled,      \* NewAwairExporter has returned
    ex,             \* the *AwairExporter it returned, or Nil
    newErr,         \* the error it returned
    newGets,        \* configuration fetches made by NewAwairExporter
    newFetched,     \* how its configuration fetch ended (history)
    started,        \* Collect invocations started so far
    pc,             \* per invocation: where Collect's own goroutine is
    tpc,            \* per invocation and task: where the fetch goroutine is
    wg,             \* per invocation: the WaitGroup counter
    values,         \* per cell: the pointer variable values
    config,         \* per cell: the pointer variable config
    emitted,        \* per invocation: the metrics sent on ch so far
    fetched,        \* per invocation and task: how the fetch ended (history)
    attempts,       \* per invocation and task: fetches made (history)
    writers,        \* per invocation and variable: the tasks that assigned it (history)
    described       \* the descriptors the last Describe sent (none yet: <<>>)

vars == <<newCalled, ex, newErr, newGets, newFetched, started, pc, tpc, wg, values, config,
          emitted, fetched, attempts, writers, described>>

Tasks == {"metrics", "config"}

None == [kind |-> "none"]

\* How a fetch ended, as the history variables record it: the JSON object the
\* device sent, or that the fetch failed.
Outcome(resp) == IF resp.kind = "object" THEN resp ELSE [kind |-> "failed"]

\* A faulty variant of Cell: values and config live in the exporter, one
\* pair for all invocations.
SharedCell(i) == "s1"

\* The storage of the variables values and config of invocation i: they are
\* locals of Collect (lines 276-277), so every invocation has its own.
Cell(i) == i

\* A faulty variant of WaitUnblocked: returns while one task is outstanding.
WaitUnblockedEarly(counter) == counter <= 1

\* wg.Wait() returns once the counter is zero (line 305).
WaitUnblocked(counter) == counter = 0

\* A faulty variant of MetricsTaskAssigns: the task assigns config as well.
MetricsTaskAssignsBoth == {"values", "config"}

\* The variables the first goroutine assigns (line 283).
MetricsTaskAssigns == {"values"}

\* The variables the second goroutine assigns (line 295).
ConfigTaskAssigns == {"config"}

\* A faulty variant of NewAwairExporterReturn: the exporter is returned
\* together with the error.
NewAwairExporterReturnAlways(res) == [ex |-> [hostname |-> Hostname], err |-> res.err]

\* What NewAwairExporter returns given the result of its GetConfig call
\* (lines 198-206).
NewAwairExporterReturn(res) ==
    IF res.err # NoErr THEN [ex |-> Nil, err |-> res.err]
    ELSE [ex |-> [hostname |-> Hostname], err |-> NoErr]

\* A faulty variant of DescribeSends: info is advertised only once a device
\* has answered.
DescribeSendsWhenConnected ==
    IF ex # Nil
    THEN << score, dew_point, temp, humidity, abs_humidity, co2, co2_estimated,
            co2_estimate_baseline, voc, voc_baseline, voc_h2_raw, voc_ethanol_raw,
            pm25, pm10, info >>
    ELSE << score, dew_point, temp, humidity, abs_humidity, co2, co2_estimated,
            co2_estimate_baseline, voc, voc_baseline, voc_h2_raw, voc_ethanol_raw,
            pm25, pm10 >>

\* The descriptors Describe sends, in order (lines 210-224).
DescribeSends ==
    << score, dew_point, temp, humidity, abs_humidity, co2, co2_estimated,
       co2_estimate_baseline, voc, voc_baseline, voc_h2_raw, voc_ethanol_raw,
       pm25, pm10, info >>

Init ==
    /\ newCalled = FALSE
    /\ ex = Nil
    /\ newErr = NoErr
    /\ newGets = 0
    /\ newFetched = "none"
    /\ started = 0
    /\ pc = [i \in Scrapes |-> "idle"]
    /\ tpc = [i \in Scrapes |-> [t \in Tasks |-> "none"]]
    /\ wg = [i \in Scrapes |-> 0]
    /\ values = [c \in Scrapes |-> Nil]
    /\ config = [c \in Scrapes |-> Nil]
    /\ emitted = [i \in Scrapes |-> <<>>]
    /\ fetched = [i \in Scrapes |-> [t \in Tasks |-> None]]
    /\ attempts = [i \in Scrapes |-> [t \in Tasks |-> 0]]
    /\ writers = [i \in Scrapes |-> [v \in {"values", "config"} |-> <<>>]]
    /\ described = <<>>

\* ----------------------------------------------------------------- actions

\* NewAwairExporter(hostname), lines 194-207: one GetConfig, then return.
NewAwairExporter ==
    /\ ~newCalled
    /\ \E resp \in ConfigResponses :
         LET ret == NewAwairExporterReturn(GetConfig(resp)) IN
           /\ ex' = ret.ex
           /\ newErr' = ret.err
           /\ newFetched' = Outcome(resp).kind
    /\ newGets' = newGets + 1
    /\ newCalled' = TRUE
    /\ UNCHANGED <<started, pc, tpc, wg, values, config, emitted, fetched,
                   attempts, writers, described>>

\* Describe, lines 209-225.  It does not read the receiver, so it runs on
\* whatever NewAwairExporter returned.
Describe ==
    /\ newCalled
    /\ described' = DescribeSends
    /\ UNCHANGED <<newCalled, ex, newErr, newGets, newFetched, started, pc, tpc, wg, values,
                   config, emitted, fetched, attempts, writers>>

\* Collect up to wg.Wait(), lines 276-304: the two variables are set to zero
\* records, the WaitGroup to 2, and the two goroutines are started.  An
\* invocation identifier is free once its previous Collect is over and the
\* goroutines of that Collect have ended.
CollectStart(i) ==
    /\ ex # Nil
    /\ started < MaxCycles
    /\ pc[i] \in {"idle", "done", "panic"}
    /\ \A t \in Tasks : tpc[i][t] \in {"none", "end"}
    /\ started' = started + 1
    /\ values' = [values EXCEPT ![Cell(i)] = AwairValues]
    /\ config' = [config EXCEPT ![Cell(i)] = ConfigResponse]
    /\ wg' = [wg EXCEPT ![i] = 2]
    /\ tpc' = [tpc EXCEPT ![i] = [t \in Tasks |-> "fetch"]]
    /\ emitted' = [emitted EXCEPT ![i] = <<>>]
    /\ fetched' = [fetched EXCEPT ![i] = [t \in Tasks |-> None]]
    /\ attempts' = [attempts EXCEPT ![i] = [t \in Tasks |-> 0]]
    /\ writers' = [writers EXCEPT ![i] = [v \in {"values", "config"} |-> <<>>]]
    /\ pc' = [pc EXCEPT ![i] = "wait"]
    /\ UNCHANGED <<newCalled, ex, newErr, newGets, newFetched, described>>

\* First goroutine, lines 282-287: values, err = e.GetMetrics(); an error is
\* logged.
MetricsFetch(i) ==
    /\ tpc[i]["metrics"] = "fetch"
    /\ \E resp \in MetricsResponses :
         LET res == GetMetrics(resp) IN
           /\ values' = IF "values" \in MetricsTaskAssigns
                        THEN [values EXCEPT ![Cell(i)] = res.ptr] ELSE values
           /\ config' = IF "config" \in MetricsTaskAssigns
                        THEN [config EXCEPT ![Cell(i)] = res.ptr] ELSE config
           /\ fetched' = [fetched EXCEPT ![i]["metrics"] = Outcome(resp)]
    /\ attempts' = [attempts EXCEPT ![i]["metrics"] = @ + 1]
    /\ writers' = [writers EXCEPT ![i] =
                     [v \in {"values", "config"} |->
                        IF v \in MetricsTaskAssigns THEN Append(@[v], "metrics") ELSE @[v]]]
    /\ tpc' = [tpc EXCEPT ![i]["metrics"] = "done"]
    /\ UNCHANGED <<newCalled, ex, newErr, newGets, newFetched, started, pc, wg, emitted, described>>

\* First goroutine, line 288: wg.Done().
MetricsDone(i) ==
    /\ tpc[i]["metrics"] = "done"
    /\ wg' = [wg EXCEPT ![i] = @ - 1]
    /\ tpc' = [tpc EXCEPT ![i]["metrics"] = "log"]
    /\ UNCHANGED <<newCalled, ex, newErr, newGets, newFetched, started, pc, values, config,
                   emitted, fetched, attempts, writers, described>>

\* First goroutine, lines 289-292: the debug log after wg.Done() reads values
\* and the goroutine ends.
MetricsLog(i) ==
    /\ tpc[i]["metrics"] = "log"
    /\ tpc' = [tpc EXCEPT ![i]["metrics"] = "end"]
    /\ UNCHANGED <<newCalled, ex, newErr, newGets, newFetched, started, pc, wg, values, config,
                   emitted, fetched, attempts, writers, described>>

\* Second goroutine, lines 294-302: config, err = e.GetConfig(); an error is
\* logged, then the debug log.
ConfigFetch(i) ==
    /\ tpc[i]["config"] = "fetch"
    /\ \E resp \in ConfigResponses :
         LET res == GetConfig(resp) IN
           /\ values' = IF "values" \in ConfigTaskAssigns
                        THEN [values EXCEPT ![Cell(i)] = res.ptr] ELSE values
           /\ config' = IF "config" \in ConfigTaskAssigns
                        THEN [config EXCEPT ![Cell(i)] = res.ptr] ELSE config
           /\ fetched' = [fetched EXCEPT ![i]["config"] = Outcome(resp)]
    /\ attempts' = [attempts EXCEPT ![i]["config"] = @ + 1]
    /\ writers' = [writers EXCEPT ![i] =
                     [v \in {"values", "config"} |->
                        IF v \in ConfigTaskAssigns THEN Append(@[v], "config") ELSE @[v]]]
    /\ tpc' = [tpc EXCEPT ![i]["config"] = "done"]
    /\ UNCHANGED <<newCalled, ex, newErr, newGets, newFetched, started, pc, wg, emitted, described>>

\* Second goroutine, line 303: wg.Done(), and the goroutine ends.
ConfigDone(i) ==
    /\ tpc[i]["config"] = "done"
    /\ wg' = [wg EXCEPT ![i] = @ - 1]
    /\ tpc' = [tpc EXCEPT ![i]["config"] = "end"]
    /\ UNCHANGED <<newCalled, ex, newErr, newGets, newFetched, started, pc, values, config,
                   emitted, fetched, attempts, writers, described>>

\* wg.Wait() returns, line 305.
Wait(i) ==
    /\ pc[i] = "wait"
    /\ WaitUnblocked(wg[i])
    /\ pc' = [pc EXCEPT ![i] = "emit"]
    /\ UNCHANGED <<newCalled, ex, newErr, newGets, newFetched, started, tpc, wg, values, config,
                   emitted, fetched, attempts, writers, described>>

\* The next ch <- prometheus.MustNewConstMetric(...) of lines 307-354: the
\* metric is built from values and config and sent, or building it panics and
\* Collect is left by the panic.  After the last send Collect returns.
Emit(i) ==
    /\ pc[i] = "emit"
    /\ LET k == Len(emitted[i]) + 1
           m == Metric(k, values[Cell(i)], config[Cell(i)])
       IN IF m.panic
          THEN /\ pc' = [pc EXCEPT ![i] = "panic"]
               /\ UNCHANGED emitted
          ELSE /\ emitted' = [emitted EXCEPT ![i] = Append(@, m)]
               /\ pc' = [pc EXCEPT ![i] = IF k = NumSends THEN "done" ELSE "emit"]
    /\ UNCHANGED <<newCalled, ex, newErr, newGets, newFetched, started, tpc, wg, values, config,
                   fetched, attempts, writers, described>>

Next ==
    \/ NewAwairExporter
    \/ Describe
    \/ \E i \in Scrapes : CollectStart(i)
    \/ \E i \in Scrapes : MetricsFetch(i)
    \/ \E i \in Scrapes : MetricsDone(i)
    \/ \E i \in Scrapes : MetricsLog(i)
    \/ \E i \in Scrapes : ConfigFetch(i)
    \/ \E i \in Scrapes : ConfigDone(i)
    \/ \E i \in Scrapes : Wait(i)
    \/ \E i \in Scrapes : Emit(i)

Spec == Init /\ [][Next]_vars

\* -------------------------------------------------------------- properties

\* Collect invocation i is over: it returned or it was left by a panic.
Over(i) == pc[i] \in {"done", "panic"}

MetricsOK(i) == fetched[i]["metrics"].kind = "object"

MetricsFailed(i) == fetched[i]["metrics"].kind = "failed"

ConfigOK(i) == fetched[i]["config"].kind = "object"

ConfigFailed(i) == fetched[i]["config"].kind = "failed"

\* The value of a key of a JSON object, 0 if the key is absent.
NumberAt(object, key) == IF key \in DOMAIN object THEN object[key] ELSE 0

\* The value of a key of a JSON object, "" if the key is absent.
StringAt(object, key) == IF key \in DOMAIN object THEN object[key] ELSE ""

\* The exposed names of the numeric gauges with the JSON key each reports,
\* in exposition order.
NumericNames ==
    << "awair_score", "awair_dew_point", "awair_temp", "awair_humidity",
       "awair_absolute_humidity", "awair_co2", "awair_co2_est", "awair_co2_est_baseline",
       "awair_voc", "awair_voc_baseline", "awair_voc_h2_raw", "awair_voc_ethanol_raw",
       "awair_pm25", "awair_pm10" >>

NumericKeys ==
    << "score", "dew_point", "temp", "humid", "abs_humid", "co2", "co2_est",
       "co2_est_baseline", "voc", "voc_baseline", "voc_h2_raw", "voc_ethanol_raw",
       "pm25", "pm10_est" >>

InfoName == "awair_device_info"

AllNames == NumericNames \o <<InfoName>>

\* The decimal rendering of the feature-set codes the device bodies carry.
DecimalString(n) == CASE n = 0 -> "0" [] n = 3 -> "3" [] n = 34 -> "34"

IsPrefix(p, q) == Len(p) <= Len(q) /\ \A k \in 1..Len(p) : p[k] = q[k]

NamesOf(metrics) == [k \in 1..Len(metrics) |-> metrics[k].desc.fqName]

\* C1: in every Collect cycle whose readings fetch failed and whose
\* configuration fetch succeeded, Collect has, when it is over, sent every
\* numeric gauge with value 0 and the informational gauge carrying the device
\* identifier of the fetched configuration.
C1_ZerosWhenReadingsFail ==
    \A i \in Scrapes :
      (Over(i) /\ MetricsFailed(i) /\ ConfigOK(i)) =>
        /\ \A n \in 1..Len(NumericNames) :
             \E k \in 1..Len(emitted[i]) :
               /\ emitted[i][k].desc.fqName = NumericNames[n]
               /\ emitted[i][k].value = 0
        /\ \E k \in 1..Len(emitted[i]) :
             /\ emitted[i][k].desc.fqName = InfoName
             /\ emitted[i][k].labelValues[1]
                  = StringAt(fetched[i]["config"].object, "device_uuid")

\* C2: in every Collect cycle whose configuration fetch failed and whose
\* readings fetch succeeded, Collect has, when it is over, sent its metrics,
\* every label value sent is the empty string, and every numeric gauge has
\* the value of its field of the fetched readings.
C2_EmptyLabelsWhenConfigFails ==
    \A i \in Scrapes :
      (Over(i) /\ ConfigFailed(i) /\ MetricsOK(i)) =>
        /\ NamesOf(emitted[i]) = AllNames
        /\ \A k \in 1..Len(emitted[i]) :
             /\ \A l \in 1..Len(emitted[i][k].labelValues) : emitted[i][k].labelValues[l] = ""
             /\ k <= Len(NumericKeys) =>
                  emitted[i][k].value = NumberAt(fetched[i]["metrics"].object, NumericKeys[k])

\* C3: a Collect invocation whose two fetches have completed is never left by
\* a panic, and when it is over it has sent its full sequence of metrics.
C3_CollectNeverFails ==
    \A i \in Scrapes :
      /\ pc[i] # "panic"
      /\ Over(i) => NamesOf(emitted[i]) = AllNames

\* C4: in every interleaving, Collect is past wg.Wait() or has sent a metric
\* only if both fetches of the cycle have completed, each attempted once,
\* whether or not either failed.
C4_NoEmissionBeforeBothFetches ==
    \A i \in Scrapes :
      (pc[i] \in {"emit", "done", "panic"} \/ emitted[i] # <<>>) =>
        \A t \in Tasks :
          /\ fetched[i][t] # None
          /\ attempts[i][t] = 1
          /\ tpc[i][t] \notin {"none", "fetch"}

\* A cycle in which the readings fetch failed, the configuration fetch
\* nevertheless completed with a device answer, and Collect went on past the
\* join; and another cycle that has started sending.
C4_Witness ==
    \E i, j \in Scrapes :
      /\ pc[i] \in {"emit", "panic"} /\ MetricsFailed(i) /\ ConfigOK(i)
      /\ pc[j] = "emit" /\ Len(emitted[j]) >= 1

\* C5 as stated: a Collect that returned has sent exactly 14 metrics, thirteen
\* numeric gauges and then the informational gauge.
C5_Exactly14 ==
    \A i \in Scrapes :
      pc[i] = "done" =>
        /\ Len(emitted[i]) = 14
        /\ \A k \in 1..13 : emitted[i][k].desc.fqName # InfoName
        /\ emitted[i][14].desc.fqName = InfoName

\* C5 amended: when both device answers are valid, Collect returns, and a
\* Collect that returned has sent exactly 15 metrics: the fourteen numeric
\* gauges in their fixed order, then the informational gauge as the last.
\* While it runs, what it has sent is a prefix of that sequence.
C5_Exactly15InOrder ==
    \A i \in Scrapes :
      /\ IsPrefix(NamesOf(emitted[i]), AllNames)
      /\ pc[i] = "done" =>
           /\ Len(emitted[i]) = 15
           /\ NamesOf(emitted[i]) = AllNames
           /\ emitted[i][15].desc.fqName = InfoName
      /\ (Over(i) /\ MetricsOK(i) /\ ConfigOK(i)) => pc[i] = "done"

C5_Witness ==
    \E i \in Scrapes : pc[i] = "done" /\ MetricsOK(i) /\ ConfigOK(i) /\ Len(emitted[i]) = 15

\* C6: when both fetches of a cycle succeeded, every numeric gauge sent has
\* the value of its readings field and the fetched device identifier as its
\* one label, and the informational gauge has value 1 and the labels device
\* identifier, firmware version and the feature-set code in decimal, all of
\* the configuration fetched in the same cycle.
C6_ValuesAndLabels ==
    \A i \in Scrapes :
      (MetricsOK(i) /\ ConfigOK(i)) =>
        /\ pc[i] = "done" => Len(emitted[i]) = Len(NumericKeys) + 1
        /\ \A k \in 1..Len(emitted[i]) :
             LET m == emitted[i][k]
                 r == fetched[i]["metrics"].object
                 c == fetched[i]["config"].object
             IN IF k <= Len(NumericKeys)
                THEN /\ m.desc.fqName = NumericNames[k]
                     /\ m.value = NumberAt(r, NumericKeys[k])
                     /\ m.labelValues = <<StringAt(c, "device_uuid")>>
                ELSE /\ m.desc.fqName = InfoName
                     /\ m.value = 1
                     /\ m.labelValues = <<StringAt(c, "device_uuid"),
                                          StringAt(c, "fw_version"),
                                          DecimalString(NumberAt(c, "voc_feature_set"))>>

\* A cycle that returned after fetching the full readings body and the
\* configuration whose feature-set code has two digits.
C6_Witness ==
    \E i \in Scrapes :
      /\ pc[i] = "done" /\ MetricsOK(i) /\ ConfigOK(i)
      /\ NumberAt(fetched[i]["config"].object, "voc_feature_set") = 34
      /\ NumberAt(fetched[i]["metrics"].object, "pm10_est") = 5
      /\ emitted[i][1].value = 85 /\ emitted[i][6].value = 612

\* C7: NewAwairExporter makes exactly one configuration fetch before it
\* returns; it returns the error and no exporter if the fetch failed, an
\* exporter and no error if it succeeded; no Collect ever starts without an
\* exporter.
C7_ConstructionValidates ==
    /\ ~newCalled => (newGets = 0 /\ ex = Nil /\ started = 0)
    /\ newCalled => newGets = 1
    /\ (newCalled /\ newFetched # "object") => (ex = Nil /\ newErr # NoErr)
    /\ (newCalled /\ newFetched = "object") => (ex # Nil /\ newErr = NoErr)
    /\ ex # Nil => newFetched = "object"
    /\ (started > 0 \/ \E i \in Scrapes : pc[i] # "idle") => (ex # Nil /\ newErr = NoErr)

\* NewAwairExporter has returned after a failed configuration fetch.
C7_Witness ==
    newCalled /\ newFetched = "failed" /\ ex = Nil /\ newErr = "unmarshal_error"

\* The (name, label-set) pairs of a sequence of descriptors.
PairsOf(descs) ==
    [k \in 1..Len(descs) |-> [name |-> descs[k].fqName, labels |-> descs[k].variableLabels]]

\* The fifteen (name, label-set) pairs of the exposition.
AllPairs ==
    [k \in 1..15 |->
       [name |-> AllNames[k],
        labels |-> IF k = 15 THEN <<"device_uuid", "firmware_version", "voc_feature_set">>
                   ELSE <<"device_uuid">>]]

\* C8 as stated: every Describe sends 14 descriptors.
C8_Describes14 == described # <<>> => Len(described) = 14

\* C8 amended: every Describe sends the same 15 (name, label-set) pairs,
\* whatever NewAwairExporter met and whatever Collect cycles ran or are
\* running, and a Describe makes no fetch.
C8_DescribeStable ==
    /\ [](described # <<>> => PairsOf(described) = AllPairs)
    /\ [][described' # described =>
            (PairsOf(described') = AllPairs /\ attempts' = attempts /\ newGets' = newGets)]_vars

\* Describe has run where construction failed.
C8_Witness == described # <<>> /\ newCalled /\ ex = Nil

\* C9: each Collect cycle starts exactly the two fetch tasks; each task
\* fetches at most once and, once past its fetch, exactly once, failed or
\* not; values is assigned by the readings task only and config by the
\* configuration task only, each exactly once by the time the task is past
\* its fetch.
C9_TwoTasksOneWriteEach ==
    \A i \in Scrapes :
      /\ pc[i] # "idle" => \A t \in Tasks : tpc[i][t] # "none"
      /\ pc[i] = "idle" => \A t \in Tasks : tpc[i][t] = "none"
      /\ \A t \in Tasks :
           /\ attempts[i][t] <= 1
           /\ tpc[i][t] \in {"done", "log", "end"} => attempts[i][t] = 1
           /\ tpc[i][t] \in {"none", "fetch"} => attempts[i][t] = 0
      /\ writers[i]["values"] =
           IF tpc[i]["metrics"] \in {"done", "log", "end"} THEN <<"metrics">> ELSE <<>>
      /\ writers[i]["config"] =
           IF tpc[i]["config"] \in {"done", "log", "end"} THEN <<"config">> ELSE <<>>

\* A cycle that is over after a failed readings fetch, both variables
\* assigned once by their own tasks.
C9_Witness ==
    \E i \in Scrapes :
      /\ Over(i) /\ MetricsFailed(i)
      /\ writers[i] = [values |-> <<"metrics">>, config |-> <<"config">>]
      /\ attempts[i] = [metrics |-> 1, config |-> 1]

\* What a Collect sends given how its own two fetches ended.
OutputOf(moutcome, coutcome) ==
    IF moutcome.kind # "object" \/ coutcome.kind # "object" THEN <<>>
    ELSE [k \in 1..NumSends |-> Metric(k, GetMetrics(moutcome).ptr, GetConfig(coutcome).ptr)]

\* C10: whatever other invocations run before or alongside it, what a Collect
\* invocation has sent is a prefix of what its own two fetch results
\* determine, all of it once the invocation returned; and it is left by a
\* panic only if one of its own fetches failed.
C10_OutputOfOwnFetchesOnly ==
    \A i \in Scrapes :
      (\A t \in Tasks : fetched[i][t] # None) =>
        LET out == OutputOf(fetched[i]["metrics"], fetched[i]["config"]) IN
          /\ IsPrefix(emitted[i], out)
          /\ pc[i] = "done" => emitted[i] = out
          /\ pc[i] = "panic" => (MetricsFailed(i) \/ ConfigFailed(i))

\* Two overlapping invocations that fetched different configurations, one
\* returned, the other still sending.
C10_Witness ==
    \E i, j \in Scrapes :
      /\ pc[i] = "done" /\ pc[j] = "emit" /\ Len(emitted[j]) >= 1
      /\ fetched[i]["config"] # fetched[j]["config"]
      /\ fetched[i]["metrics"] # fetched[j]["metrics"]

====
